---- MODULE Spec2Model ----
(***************************************************************************)
(* components::Manager of userver: boot (task processors, component        *)
(* context, parallel construction tasks) and shutdown (ClearComponents,    *)
(* context release, TaskProcessorsStorage::Reset).                         *)
(*                                                                         *)
(* Manager, TaskProcessorsStorage and RunInCoro are translated from        *)
(* core/src/components/manager.cpp.  ComponentContext, TaskProcessor, Task *)
(* and the coroutine pool are not part of the sources at hand: they are    *)
(* modelled from the specification's contract for them.                    *)
(***************************************************************************)
EXTENDS Integers, Sequences, FiniteSets

\* ------------------------------------------------------------------ bounds
MaxComponents == 2      \* longest component list
MaxFinds == 1           \* FindComponent calls one factory makes
MaxDetached == 1        \* detached tasks the running service starts
MaxEnvLen == 3          \* longest value of the CPU_LIMIT environment variable

\* --------------------------------------------------------------- constants
kMaxCpu == 32

\* ------------------------------------------------------------------ inputs
Names == {"logging", "handler"}
TaskProcessors == {"main-task-processor", "fs-task-processor"}
DefaultNames == {"main-task-processor", "absent-task-processor"}
\* A component's entry in the config: none, or one with load-enabled true,
\* false or not given.
ConfigKinds == {"absent", "enabled", "disabled", "unspecified"}

ComponentLists == UNION {[1..n -> Names] : n \in 1..MaxComponents}

\* The component whose class derives from components::Logging.
LoggingName == "logging"

\* The characters a CPU_LIMIT value is made of here: some decimal digits, the
\* suffix, a sign and a letter that belongs to no number.
EnvAlphabet == {"0", "1", "2", "3", "c", "-", "a"}
EnvStrings == UNION {[1..n -> EnvAlphabet] : n \in 0..MaxEnvLen}
Unset == [set |-> FALSE, value |-> <<>>]
EnvOf(s) == [set |-> TRUE, value |-> s]
EnvValues == {Unset} \cup {EnvOf(s) : s \in EnvStrings}

ConfiguredWorkerThreads == {1, 40}
ProcessorConfigs ==
  [worker_threads : ConfiguredWorkerThreads, should_guess_cpu_limit : BOOLEAN]

VARIABLES
  component_list,        \* const ComponentList& (sequence of adder names)
  components,            \* config_->components: name -> absent | enabled | disabled
  default_task_processor,\* config_->default_task_processor
  pc,                    \* the thread that constructs and destroys the Manager
  tps,                   \* task_processors_map_: name -> none | running | shutdown | destroyed
  pools,                 \* task_processor_pools_ is non-null
  ctx,                   \* component_context_: none | live | released
  cancelled,             \* the context's cancellation flag
  compState,             \* ComponentInfo state per name
  edges,                 \* dependency edges observed by FindComponent
  task,                  \* the construction tasks, by position in component_list
  bpc,                   \* the coroutine running CreateComponentContext
  getIdx,                \* position of the task.Get() loop
  is_load_cancelled,
  bootError,             \* what CreateComponentContext raised ("none": nothing)
  bootErrorOf,           \* the task whose exception is reported (0: none)
  cpc,                   \* the coroutine running ClearComponents for ~Manager
  clearPhase,            \* Manager::ClearComponents in progress
  clearCalls,            \* times the context's ClearComponents was entered
  clearFailed,           \* the context's ClearComponents raised
  components_cleared_,
  rpc,                   \* TaskProcessorsStorage::Reset in progress
  resetCalls,
  bg,                    \* detached tasks of the running service
  hookCalls,             \* times OnAllComponentsLoaded was invoked
  failOrder,             \* tasks in the order their non-cancellation failure occurred
  log,                   \* shutdown steps in the order they happened
  task_processors,       \* config_->task_processors: name -> its config
  cpu_limit_env,         \* std::getenv("CPU_LIMIT")
  worker_threads,        \* name -> worker_threads its TaskProcessor was built with
  component_config_map,  \* the names AddComponents has put into its map
  rot,                   \* the thread that calls Manager::OnLogRotate
  logging_component_,
  destroyed              \* the components in the order the context destroyed them

vars == <<component_list, components, default_task_processor, pc, tps, pools,
          ctx, cancelled, compState, edges, task, bpc, getIdx,
          is_load_cancelled, bootError, bootErrorOf, cpc, clearPhase,
          clearCalls, clearFailed, components_cleared_, rpc, resetCalls, bg,
          hookCalls, failOrder, log, task_processors, cpu_limit_env,
          worker_threads, component_config_map, rot, logging_component_,
          destroyed>>

cfgVars == <<component_list, components, default_task_processor,
             task_processors, cpu_limit_env>>
sideVars == <<worker_threads, component_config_map, rot, logging_component_,
              destroyed>>
bootVars == <<bpc, getIdx, is_load_cancelled, bootError, bootErrorOf, hookCalls>>
ctxVars == <<ctx, cancelled, compState, edges>>
clearVars == <<clearPhase, clearCalls, clearFailed, components_cleared_>>
resetVars == <<rpc, resetCalls, tps, pools>>

\* ----------------------------------------------------------------- helpers
N == Len(component_list)
Range(s) == {s[i] : i \in 1..Len(s)}
Expected == Range(component_list)
HasDuplicates(s) == \E i, j \in 1..Len(s) : i # j /\ s[i] = s[j]
TaskOf(n) == CHOOSE i \in 1..N : component_list[i] = n
NoTask == [st |-> "none", exc |-> "none", finds |-> 0, waitOn |-> ""]
Event(kind, arg) == <<kind, arg>>

\* stats.active_coroutines of the coroutine pool: every coroutine that has
\* started and not yet finished.
ActiveCoroutines ==
  (IF bpc \in {"none", "exited"} THEN 0 ELSE 1)
  + (IF cpc \in {"none", "exited"} THEN 0 ELSE 1)
  + Cardinality({i \in 1..N : task[i].st \notin {"none", "done"}})
  + Cardinality({k \in 1..MaxDetached : bg[k] \in {"running", "suspended"}})

\* task_processor_pools_.use_count(): the storage's reference and the one
\* every living TaskProcessor was constructed with.
PoolsUseCount ==
  (IF pools THEN 1 ELSE 0)
  + Cardinality({t \in TaskProcessors : tps[t] \in {"running", "shutdown"}})

\* ------------------------------------------------------------ GuessCpuLimit
Digits == <<"0", "1", "2", "3", "4", "5", "6", "7", "8", "9">>
IsDigit(ch) == \E d \in 1..Len(Digits) : Digits[d] = ch
DigitValue(ch) == (CHOOSE d \in 1..Len(Digits) : Digits[d] = ch) - 1

\* The digits of s from position p on, as far as they go.
RECURSIVE DigitsEnd(_, _)
DigitsEnd(s, p) ==
  IF p <= Len(s) /\ IsDigit(s[p]) THEN DigitsEnd(s, p + 1) ELSE p

RECURSIVE DecimalValue(_, _, _)
DecimalValue(s, from, to) ==
  IF to < from THEN 0
  ELSE 10 * DecimalValue(s, from, to - 1) + DigitValue(s[to])

\* std::stod(cpu_limit, &end) on a value made of EnvAlphabet: an optional
\* sign and decimal digits; without a digit it throws std::invalid_argument.
\* end is the number of characters it has consumed.
Stod(s) ==
  LET first == IF Len(s) >= 1 /\ s[1] = "-" THEN 2 ELSE 1
      stop == DigitsEnd(s, first)
      magnitude == DecimalValue(s, first, stop - 1) IN
    IF stop = first
      THEN [throws |-> TRUE, value |-> 0, end |-> 0]
      ELSE [throws |-> FALSE,
            value |-> IF first = 2 THEN 0 - magnitude ELSE magnitude,
            end |-> stop - 1]

Nullopt == [has_value |-> FALSE, value |-> 0]
Optional(v) == [has_value |-> TRUE, value |-> v]

\* (the same without `if (cpu < 3) cpu = 3`)
GuessCpuLimitWithoutFloor(tp_name) ==
  IF ~cpu_limit_env.set THEN Nullopt
  ELSE LET cpu_limit == cpu_limit_env.value
           parsed == Stod(cpu_limit) IN
         IF parsed.throws THEN Nullopt
         ELSE IF SubSeq(cpu_limit, parsed.end + 1, Len(cpu_limit)) # <<"c">>
           THEN Nullopt
           ELSE LET cpu == parsed.value IN
                  IF cpu > 0 /\ cpu < kMaxCpu
                    THEN Optional(cpu)
                    ELSE Nullopt

\* std::optional<size_t> GuessCpuLimit(const std::string& tp_name);
\* std::lround of the whole number std::stod returned is that number.
GuessCpuLimit(tp_name) ==
  IF ~cpu_limit_env.set THEN Nullopt
  ELSE LET cpu_limit == cpu_limit_env.value
           parsed == Stod(cpu_limit) IN
         IF parsed.throws THEN Nullopt
         ELSE IF SubSeq(cpu_limit, parsed.end + 1, Len(cpu_limit)) # <<"c">>
           THEN Nullopt
           ELSE LET cpu == parsed.value IN
                  IF cpu > 0 /\ cpu < kMaxCpu
                    THEN Optional(IF cpu < 3 THEN 3 ELSE cpu)
                    ELSE Nullopt

\* The state of a Manager whose constructor is about to run its body.
Constructing ==
  /\ pc = "ctor_processors"
  /\ tps = [t \in TaskProcessors |-> "none"]
  /\ pools = TRUE
  /\ ctx = "none"
  /\ cancelled = FALSE
  /\ compState = [n \in Names |-> "kNotRegistered"]
  /\ edges = {}
  /\ task = [i \in 1..Len(component_list) |-> NoTask]
  /\ bpc = "none"
  /\ getIdx = 1
  /\ is_load_cancelled = FALSE
  /\ bootError = "none"
  /\ bootErrorOf = 0
  /\ cpc = "none"
  /\ clearPhase = "idle"
  /\ clearCalls = 0
  /\ clearFailed = FALSE
  /\ components_cleared_ = FALSE
  /\ rpc = "idle"
  /\ resetCalls = 0
  /\ bg = [k \in 1..MaxDetached |-> "none"]
  /\ hookCalls = 0
  /\ failOrder = <<>>
  /\ log = <<>>
  /\ worker_threads = [t \in TaskProcessors |-> 0]
  /\ component_config_map = {}
  /\ rot = "idle"
  /\ logging_component_ = "nullptr"
  /\ destroyed = <<>>

\* Every component list and every component config that gives load-enabled
\* where there is an entry; the default task processor asks for the CPU
\* limit, which the environment sets to two cores.
Init ==
  /\ component_list \in ComponentLists
  /\ components \in [Names -> ConfigKinds \ {"unspecified"}]
  /\ default_task_processor \in DefaultNames
  /\ task_processors =
       [t \in TaskProcessors |->
          [worker_threads |-> 40,
           should_guess_cpu_limit |-> (t = "main-task-processor")]]
  /\ cpu_limit_env = EnvOf(<<"2", "c">>)
  /\ Constructing

\* The same with the entries that do not give load-enabled.
LoadInit ==
  /\ component_list \in ComponentLists
  /\ components \in [Names -> ConfigKinds]
  /\ default_task_processor \in DefaultNames
  /\ task_processors =
       [t \in TaskProcessors |->
          [worker_threads |-> 40,
           should_guess_cpu_limit |-> (t = "main-task-processor")]]
  /\ cpu_limit_env = EnvOf(<<"2", "c">>)
  /\ Constructing

\* Every task processor config and every value of CPU_LIMIT, for one
\* component list.
CpuInit ==
  /\ component_list = <<LoggingName>>
  /\ components = [n \in Names |-> "enabled"]
  /\ default_task_processor \in DefaultNames
  /\ task_processors \in [TaskProcessors -> ProcessorConfigs]
  /\ cpu_limit_env \in EnvValues
  /\ Constructing

\* ------------------------------------------------- Manager::Manager (body)
\* The loop over config_->task_processors: every processor is constructed
\* with the pools and added to the storage.
\* (the same with the guess applied to every processor that asks for it)
WorkerThreadsOfAnyGuessing(t) ==
  LET processor_config == task_processors[t]
      guess_cpu == GuessCpuLimit(t) IN
    IF processor_config.should_guess_cpu_limit /\ guess_cpu.has_value
      THEN guess_cpu.value
      ELSE processor_config.worker_threads

\* One pass of the loop body: the worker_threads of the copy
\* `processor_config` that the TaskProcessor is constructed from.
WorkerThreadsOf(t) ==
  LET processor_config == task_processors[t]
      guess_cpu == GuessCpuLimit(t) IN
    IF processor_config.should_guess_cpu_limit /\ default_task_processor = t
         /\ guess_cpu.has_value
      THEN guess_cpu.value
      ELSE processor_config.worker_threads

ConstructTaskProcessors ==
  /\ pc = "ctor_processors"
  /\ tps' = [t \in TaskProcessors |-> "running"]
  /\ worker_threads' = [t \in TaskProcessors |-> WorkerThreadsOf(t)]
  /\ pc' = "ctor_default"
  /\ UNCHANGED <<cfgVars, component_config_map, rot, logging_component_,
                 destroyed, pools, ctxVars, task, bootVars, cpc, clearVars,
                 rpc, resetCalls, bg, failOrder, log>>

\* The lookup of default_task_processor, then RunInCoro(CreateComponentContext).
FindDefaultTaskProcessorUnchecked ==
  /\ pc = "ctor_default"
  /\ bpc' = "create_context"
  /\ pc' = "ctor_wait"
  /\ UNCHANGED <<cfgVars, sideVars, tps, pools, ctxVars, task, getIdx,
                 is_load_cancelled, bootError, bootErrorOf, hookCalls, cpc,
                 clearVars, rpc, resetCalls, bg, failOrder, log>>

FindDefaultTaskProcessor ==
  /\ pc = "ctor_default"
  /\ IF default_task_processor \notin {t \in TaskProcessors : tps[t] # "none"}
       THEN /\ bootError' = "missing_default"
            /\ pc' = "unwind_context"
            /\ bpc' = bpc
       ELSE /\ bpc' = "create_context"
            /\ pc' = "ctor_wait"
            /\ bootError' = bootError
  /\ UNCHANGED <<cfgVars, sideVars, tps, pools, ctxVars, task, getIdx, is_load_cancelled,
                 bootErrorOf, hookCalls, cpc, clearVars, rpc, resetCalls, bg,
                 failOrder, log>>

\* --------------------------------------------- Manager::ClearComponents
\* Entering ClearComponents: the caller's coroutine goes on with the steps
\* below and is resumed by ClearReturn.
EnterClearComponents == clearPhase' = "flag"

\* context_mutex_ is held shared by a thread that is inside OnLogRotate.
SharedHolders == IF rot = "idle" THEN 0 ELSE 1

\* (the flag set without taking the lock)
UniqueLockNotTaken == TRUE

\* std::unique_lock lock(context_mutex_) returns once nobody holds the mutex.
UniqueLock == SharedHolders = 0

\* { unique_lock lock(context_mutex_); components_cleared_ = true; }
ClearSetFlag ==
  /\ clearPhase = "flag"
  /\ UniqueLock
  /\ components_cleared_' = TRUE
  /\ clearPhase' = "mark"
  /\ UNCHANGED <<cfgVars, sideVars, pc, resetVars, ctxVars, task, bootVars, cpc,
                 clearCalls, clearFailed, bg, failOrder, log>>

\* component_context_->ClearComponents(), first half: every registered
\* component is marked kStopping.
ContextClearMark ==
  /\ clearPhase = "mark"
  /\ clearCalls' = clearCalls + 1
  /\ compState' = [n \in Names |->
                     IF compState[n] = "kNotRegistered" THEN "kNotRegistered"
                     ELSE "kStopping"]
  /\ clearPhase' = "destroy"
  /\ UNCHANGED <<cfgVars, sideVars, pc, resetVars, ctx, cancelled, edges, task,
                 bootVars, cpc, clearFailed, components_cleared_, bg,
                 failOrder, log>>

\* (any component that is being stopped)
DestroyableInAnyOrder(n) == compState[n] = "kStopping"

\* A component may be destroyed once every component that depends on it is.
Destroyable(n) ==
  /\ compState[n] = "kStopping"
  /\ \A e \in edges : e[2] = n /\ e[1] # n => compState[e[1]] # "kStopping"

\* component_context_->ClearComponents(), second half: one destruction.
ContextDestroy(n) ==
  /\ clearPhase = "destroy"
  /\ Destroyable(n)
  /\ compState' = [compState EXCEPT ![n] = "kStopped"]
  /\ destroyed' = Append(destroyed, n)
  /\ UNCHANGED <<cfgVars, worker_threads, component_config_map, rot,
                 logging_component_, pc, resetVars, ctx, cancelled, edges, task,
                 bootVars, cpc, clearVars, bg, failOrder, log>>

\* catch (const std::exception& ex) { LOG_ERROR() << ... } inside the
\* noexcept ClearComponents: the failure stays in the function.
TerminateOnClearFailure ==
  /\ clearFailed' = TRUE
  /\ pc' = "terminated"

SwallowClearFailure ==
  /\ clearFailed' = TRUE
  /\ pc' = pc

\* ClearComponents returns to the coroutine that called it: the boot
\* coroutine rethrows its pending error, the destructor's coroutine
\* fulfils its future.
ClearReturn ==
  /\ clearPhase = "destroy"
  /\ \A n \in Names : compState[n] # "kStopping"
  /\ \/ /\ clearFailed' = clearFailed
        /\ pc' = pc
     \/ SwallowClearFailure
  /\ clearPhase' = "idle"
  /\ IF bpc = "clearing"
       THEN bpc' = "fulfilled" /\ cpc' = cpc
       ELSE cpc' = "fulfilled" /\ bpc' = bpc
  /\ log' = Append(log, Event("ClearComponents", ""))
  /\ UNCHANGED <<cfgVars, sideVars, resetVars, ctxVars, task, getIdx, is_load_cancelled,
                 bootError, bootErrorOf, hookCalls, clearCalls,
                 components_cleared_, bg, failOrder>>

\* ------------------------------------------ Manager::CreateComponentContext
\* (the context made without the check for a name inserted twice)
CreateComponentContextUnchecked ==
  /\ bpc = "create_context"
  /\ ctx' = "live"
  /\ bpc' = "check_config"
  /\ UNCHANGED <<cfgVars, sideVars, pc, resetVars, cancelled, compState, edges,
                 task, getIdx, is_load_cancelled, bootError, bootErrorOf,
                 hookCalls, cpc, clearVars, bg, failOrder, log>>

CreateComponentContext ==
  /\ bpc = "create_context"
  /\ IF HasDuplicates(component_list)
       THEN /\ bootError' = "duplicate"
            /\ bpc' = "fulfilled"
            /\ ctx' = ctx
       ELSE /\ ctx' = "live"
            /\ bpc' = "check_config"
            /\ bootError' = bootError
  /\ UNCHANGED <<cfgVars, sideVars, pc, resetVars, cancelled, compState, edges, task,
                 getIdx, is_load_cancelled, bootErrorOf, hookCalls, cpc,
                 clearVars, bg, failOrder, log>>

\* ----------------------------------------------- Manager::AddComponents
\* The loop over config_->components.
\* (a list that claims to contain every name)
ContainsAnything(name) == TRUE

\* component_list.Contains(name)
Contains(name) == name \in Expected

\* One entry at a time, in whatever order the entries have in the config;
\* the loop is left when no entry remains.
CheckComponentConfigs ==
  /\ bpc = "check_config"
  /\ LET remaining == {n \in Names : components[n] # "absent"}
                         \ component_config_map IN
       IF remaining = {}
         THEN /\ bpc' = "spawn"
              /\ UNCHANGED <<bootError, clearPhase, component_config_map>>
         ELSE \E name \in remaining :
                IF ~Contains(name)
                  THEN /\ bootError' = "unregistered_config"
                       /\ bpc' = "clearing"
                       /\ EnterClearComponents
                       /\ component_config_map' = component_config_map
                  ELSE /\ component_config_map' = component_config_map \cup {name}
                       /\ UNCHANGED <<bpc, bootError, clearPhase>>
  /\ UNCHANGED <<cfgVars, worker_threads, rot, logging_component_, destroyed,
                 pc, resetVars, ctxVars, task, getIdx,
                 is_load_cancelled, bootErrorOf, hookCalls, cpc, clearCalls,
                 clearFailed, components_cleared_, bg, failOrder, log>>

\* tasks.push_back(utils::CriticalAsync(task_name, ...)) for the next adder.
SpawnTask ==
  /\ bpc = "spawn"
  /\ LET unspawned == {i \in 1..N : task[i].st = "none"} IN
       IF unspawned = {}
         THEN /\ bpc' = "get"
              /\ task' = task
         ELSE /\ task' = [task EXCEPT
                   ![CHOOSE i \in unspawned : \A j \in unspawned : i <= j].st
                     = "spawned"]
              /\ bpc' = bpc
  /\ UNCHANGED <<cfgVars, sideVars, pc, resetVars, ctxVars, getIdx, is_load_cancelled,
                 bootError, bootErrorOf, hookCalls, cpc, clearVars, bg,
                 failOrder, log>>

\* ------------------------------------------------ the construction tasks
\* The exception leaves the factory (or AddComponentImpl) of task i.
Raise(i, kind) ==
  /\ task' = [task EXCEPT ![i].st = "throwing", ![i].exc = kind]
  /\ failOrder' = IF kind = "cancelled" THEN failOrder ELSE Append(failOrder, i)

\* ParseOptionalBool("load-enabled").value_or(true)
LoadEnabledAlways(n) == TRUE

\* ParseOptionalBool("load-enabled") of the component's entry
ParseOptionalBool(n) ==
  IF components[n] = "enabled" THEN Optional(TRUE)
  ELSE IF components[n] = "disabled" THEN Optional(FALSE)
  ELSE Nullopt

\* (the same with .value_or(false))
LoadEnabledDefaultsFalse(n) ==
  LET parsed == ParseOptionalBool(n) IN
    IF parsed.has_value THEN parsed.value ELSE FALSE

LoadEnabled(n) ==
  LET parsed == ParseOptionalBool(n) IN
    IF parsed.has_value THEN parsed.value ELSE TRUE

\* Manager::AddComponentImpl up to the call of the factory: the adder of
\* task i looks its config up and hands the factory to the context, which
\* registers the component (kCreated) and starts the factory.
AddComponentImpl(i) ==
  /\ task[i].st = "spawned"
  /\ LET n == component_list[i] IN
       IF n \notin component_config_map
         THEN /\ Raise(i, "std")
              /\ compState' = compState
         ELSE IF ~LoadEnabled(n)
           THEN /\ task' = [task EXCEPT ![i].st = "done"]
                /\ UNCHANGED <<compState, failOrder>>
           ELSE /\ task' = [task EXCEPT ![i].st = "factory"]
                /\ compState' = [compState EXCEPT ![n] = "kCreated"]
                /\ failOrder' = failOrder
  /\ UNCHANGED <<cfgVars, sideVars, pc, resetVars, ctx, cancelled, edges, bootVars,
                 cpc, clearVars, bg, log>>

\* The components that wait, directly or through others, on component a.
RECURSIVE WaitChain(_, _)
WaitChain(b, fuel) ==
  IF fuel = 0 \/ b \notin Expected THEN {b}
  ELSE LET t == task[TaskOf(b)] IN
         IF t.st = "waiting" THEN {b} \cup WaitChain(t.waitOn, fuel - 1)
         ELSE {b}

ClosesCycle(a, b) == a \in WaitChain(b, N)

\* ComponentContext::FindComponent(b), called inside the factory of task i.
FindComponent(i, b) ==
  /\ task[i].st = "factory"
  /\ task[i].finds < MaxFinds
  /\ LET a == component_list[i]
         counted == [task EXCEPT ![i].finds = @ + 1] IN
       IF b \notin Expected \/ components[b] = "disabled" \/
          (compState[b] # "kActive" /\ ~cancelled /\ ClosesCycle(a, b))
         THEN \* Unregistered, Disabled, DependencyCycle
              /\ task' = [counted EXCEPT ![i].st = "throwing", ![i].exc = "std"]
              /\ failOrder' = Append(failOrder, i)
              /\ edges' = edges
         ELSE IF compState[b] = "kActive"
           THEN /\ task' = counted
                /\ edges' = edges \cup {<<a, b>>}
                /\ failOrder' = failOrder
           ELSE IF cancelled
             THEN \* LoadCancelled
                  /\ task' = [counted EXCEPT ![i].st = "throwing",
                                             ![i].exc = "cancelled"]
                  /\ UNCHANGED <<edges, failOrder>>
             ELSE /\ task' = [counted EXCEPT ![i].st = "waiting",
                                             ![i].waitOn = b]
                  /\ edges' = edges \cup {<<a, b>>}
                  /\ failOrder' = failOrder
  /\ UNCHANGED <<cfgVars, sideVars, pc, resetVars, ctx, cancelled, compState, bootVars,
                 cpc, clearVars, bg, log>>

\* A factory suspended in FindComponent is woken: its target became kActive,
\* or the load was cancelled (LoadCancelled).
WakeWaiter(i) ==
  /\ task[i].st = "waiting"
  /\ \/ /\ compState[task[i].waitOn] = "kActive"
        /\ task' = [task EXCEPT ![i].st = "factory"]
     \/ /\ compState[task[i].waitOn] # "kActive"
        /\ cancelled
        /\ task' = [task EXCEPT ![i].st = "throwing", ![i].exc = "cancelled"]
  /\ UNCHANGED <<cfgVars, sideVars, pc, resetVars, ctxVars, bootVars, cpc, clearVars,
                 bg, failOrder, log>>

\* The factory throws by itself: a std::exception, or a value of a type that
\* is not derived from std::exception.
FactoryThrows(i, kind) ==
  /\ task[i].st = "factory"
  /\ Raise(i, kind)
  /\ UNCHANGED <<cfgVars, sideVars, pc, resetVars, ctxVars, bootVars, cpc, clearVars,
                 bg, log>>

\* dynamic_cast<components::Logging*>(component) is not null
IsLogging(n) == n = LoggingName

\* The factory returns: the context makes the component kActive and
\* AddComponent returns it to AddComponentImpl, which goes on to the
\* dynamic_cast and returns unless the component is the logging one.
FactoryReturns(i) ==
  /\ task[i].st = "factory"
  /\ compState' = [compState EXCEPT ![component_list[i]] = "kActive"]
  /\ task' = [task EXCEPT ![i].st =
                 IF IsLogging(component_list[i]) THEN "assign" ELSE "done"]
  /\ UNCHANGED <<cfgVars, sideVars, pc, resetVars, ctx, cancelled, edges, bootVars,
                 cpc, clearVars, bg, failOrder, log>>

\* logging_component_ = logging_component; no lock is taken for it.
AssignLoggingComponent(i) ==
  /\ task[i].st = "assign"
  /\ logging_component_' = component_list[i]
  /\ task' = [task EXCEPT ![i].st = "done"]
  /\ UNCHANGED <<cfgVars, worker_threads, component_config_map, rot, destroyed,
                 pc, resetVars, ctxVars, bootVars, cpc, clearVars, bg,
                 failOrder, log>>

\* The three catch clauses of the task's lambda: each calls
\* component_context_->CancelComponentsLoad() ...
CatchWithoutCancel(i) ==
  /\ task[i].st = "throwing"
  /\ task' = [task EXCEPT ![i].st = "rethrow"]
  /\ cancelled' = cancelled
  /\ UNCHANGED <<cfgVars, sideVars, pc, resetVars, ctx, compState, edges, bootVars,
                 cpc, clearVars, bg, failOrder, log>>

TaskCatch(i) ==
  /\ task[i].st = "throwing"
  /\ task' = [task EXCEPT ![i].st = "rethrow"]
  /\ cancelled' = TRUE
  /\ UNCHANGED <<cfgVars, sideVars, pc, resetVars, ctx, compState, edges, bootVars,
                 cpc, clearVars, bg, failOrder, log>>

\* ... and then rethrows: the task ends holding the exception for its joiner.
TaskRethrow(i) ==
  /\ task[i].st = "rethrow"
  /\ task' = [task EXCEPT ![i].st = "done"]
  /\ UNCHANGED <<cfgVars, sideVars, pc, resetVars, ctxVars, bootVars, cpc, clearVars,
                 bg, failOrder, log>>

\* CancelComponentsLoad called from outside the load (the hook is exposed to
\* the embedding service).
ExternalCancelComponentsLoad ==
  /\ bpc \in {"spawn", "get"}
  /\ ~cancelled
  /\ cancelled' = TRUE
  /\ UNCHANGED <<cfgVars, sideVars, pc, resetVars, ctx, compState, edges, task,
                 bootVars, cpc, clearVars, bg, failOrder, log>>

\* ------------------------------- Manager::AddComponents, joining the tasks
\* task.Get() of the loop over tasks.
GetTaskCancelIsError ==
  /\ bpc = "get"
  /\ getIdx <= N
  /\ task[getIdx].st = "done"
  /\ IF task[getIdx].exc = "none"
       THEN /\ getIdx' = getIdx + 1
            /\ UNCHANGED <<bpc, is_load_cancelled, bootError, bootErrorOf>>
       ELSE /\ bootError' = "construction"
            /\ bootErrorOf' = getIdx
            /\ bpc' = IF task[getIdx].exc = "nonstd" THEN "escape" ELSE "catch"
            /\ UNCHANGED <<getIdx, is_load_cancelled>>
  /\ UNCHANGED <<cfgVars, sideVars, pc, resetVars, ctxVars, task, hookCalls, cpc,
                 clearVars, bg, failOrder, log>>

\* (the loop left at the first ComponentsLoadCancelledException)
GetTaskLeavesOnCancel ==
  /\ bpc = "get"
  /\ getIdx <= N
  /\ task[getIdx].st = "done"
  /\ IF task[getIdx].exc = "none"
       THEN /\ getIdx' = getIdx + 1
            /\ UNCHANGED <<bpc, is_load_cancelled, bootError, bootErrorOf>>
       ELSE IF task[getIdx].exc = "cancelled"
         THEN /\ is_load_cancelled' = TRUE
              /\ getIdx' = N + 1
              /\ UNCHANGED <<bpc, bootError, bootErrorOf>>
         ELSE /\ bootError' = "construction"
              /\ bootErrorOf' = getIdx
              /\ bpc' = IF task[getIdx].exc = "std" THEN "catch" ELSE "escape"
              /\ UNCHANGED <<getIdx, is_load_cancelled>>
  /\ UNCHANGED <<cfgVars, sideVars, pc, resetVars, ctxVars, task, hookCalls, cpc,
                 clearVars, bg, failOrder, log>>

GetTask ==
  /\ bpc = "get"
  /\ getIdx <= N
  /\ task[getIdx].st = "done"
  /\ IF task[getIdx].exc = "none"
       THEN /\ getIdx' = getIdx + 1
            /\ UNCHANGED <<bpc, is_load_cancelled, bootError, bootErrorOf>>
       ELSE IF task[getIdx].exc = "cancelled"
         THEN /\ is_load_cancelled' = TRUE
              /\ getIdx' = getIdx + 1
              /\ UNCHANGED <<bpc, bootError, bootErrorOf>>
         ELSE /\ bootError' = "construction"
              /\ bootErrorOf' = getIdx
              /\ bpc' = IF task[getIdx].exc = "std" THEN "catch" ELSE "escape"
              /\ UNCHANGED <<getIdx, is_load_cancelled>>
  /\ UNCHANGED <<cfgVars, sideVars, pc, resetVars, ctxVars, task, hookCalls, cpc,
                 clearVars, bg, failOrder, log>>

\* catch (const std::exception&): component_context_->CancelComponentsLoad()
CatchCancelsLoad ==
  /\ bpc = "catch"
  /\ cancelled' = TRUE
  /\ bpc' = "catch_wait"
  /\ UNCHANGED <<cfgVars, sideVars, pc, resetVars, ctx, compState, edges, task, getIdx,
                 is_load_cancelled, bootError, bootErrorOf, hookCalls, cpc,
                 clearVars, bg, failOrder, log>>

AllTasksDone == \A i \in 1..N : task[i].st \in {"none", "done"}

\* for (auto& task : tasks) if (task.IsValid()) task.Wait();
\* then ClearComponents(); throw;
CatchClearsWithoutWaiting ==
  /\ bpc = "catch_wait"
  /\ bpc' = "clearing"
  /\ EnterClearComponents
  /\ UNCHANGED <<cfgVars, sideVars, pc, resetVars, ctxVars, task, getIdx,
                 is_load_cancelled, bootError, bootErrorOf, hookCalls, cpc,
                 clearCalls, clearFailed, components_cleared_, bg, failOrder,
                 log>>

CatchWaitsAndClears ==
  /\ bpc = "catch_wait"
  /\ AllTasksDone
  /\ bpc' = "clearing"
  /\ EnterClearComponents
  /\ UNCHANGED <<cfgVars, sideVars, pc, resetVars, ctxVars, task, getIdx,
                 is_load_cancelled, bootError, bootErrorOf, hookCalls, cpc,
                 clearCalls, clearFailed, components_cleared_, bg, failOrder,
                 log>>

\* An exception that no catch clause of AddComponents matches leaves it:
\* `tasks` is destroyed, which joins every task, and the exception ends
\* CreateComponentContext.
EscapeAddComponents ==
  /\ bpc = "escape"
  /\ AllTasksDone
  /\ bpc' = "fulfilled"
  /\ UNCHANGED <<cfgVars, sideVars, pc, resetVars, ctxVars, task, getIdx,
                 is_load_cancelled, bootError, bootErrorOf, hookCalls, cpc,
                 clearVars, bg, failOrder, log>>

\* After the loop: if (is_load_cancelled) { ClearComponents(); throw
\* std::logic_error(...); }
AfterGetLoopIgnoresCancel ==
  /\ bpc = "get"
  /\ getIdx > N
  /\ bpc' = "all_created"
  /\ UNCHANGED <<cfgVars, sideVars, pc, resetVars, ctxVars, task, getIdx,
                 is_load_cancelled, bootError, bootErrorOf, hookCalls, cpc,
                 clearVars, bg, failOrder, log>>

AfterGetLoop ==
  /\ bpc = "get"
  /\ getIdx > N
  /\ IF is_load_cancelled
       THEN /\ bootError' = "cancelled_only"
            /\ bpc' = "clearing"
            /\ EnterClearComponents
       ELSE /\ bpc' = "all_created"
            /\ UNCHANGED <<bootError, clearPhase>>
  /\ UNCHANGED <<cfgVars, sideVars, pc, resetVars, ctxVars, task, getIdx,
                 is_load_cancelled, bootErrorOf, hookCalls, cpc, clearCalls,
                 clearFailed, components_cleared_, bg, failOrder, log>>

\* component_context_->OnAllComponentsLoaded(), which runs the hook of every
\* component there is and may raise what a hook raises; then load_duration_
\* is set.
\* catch (const std::exception&) { ClearComponents(); throw; } takes a
\* std::exception only: any other value leaves AddComponents at once (every
\* task has been joined by then).
OnAllComponentsLoaded ==
  /\ bpc = "all_created"
  /\ hookCalls' = hookCalls + 1
  /\ \/ /\ bpc' = "fulfilled"
        /\ UNCHANGED <<bootError, clearPhase>>
     \/ /\ \E n \in Names : compState[n] = "kActive"
        /\ bootError' = "hook"
        /\ bpc' = "clearing"
        /\ EnterClearComponents
     \/ /\ \E n \in Names : compState[n] = "kActive"
        /\ bootError' = "hook_nonstd"
        /\ bpc' = "fulfilled"
        /\ clearPhase' = clearPhase
  /\ UNCHANGED <<cfgVars, sideVars, pc, resetVars, ctxVars, task, getIdx,
                 is_load_cancelled, bootErrorOf, cpc, clearCalls, clearFailed,
                 components_cleared_, bg, failOrder, log>>

\* RunInCoro: the detached coroutine ends after its packaged_task has
\* fulfilled the future.
BootCoroutineExits ==
  /\ bpc = "fulfilled"
  /\ bpc' = "exited"
  /\ UNCHANGED <<cfgVars, sideVars, pc, resetVars, ctxVars, task, getIdx,
                 is_load_cancelled, bootError, bootErrorOf, hookCalls, cpc,
                 clearVars, bg, failOrder, log>>

\* ----------------------------------- Manager::Manager, after RunInCoro
\* future.get() returns or rethrows what CreateComponentContext raised; a
\* throwing constructor destroys the members already constructed.
ConstructorReturnsAtOnce ==
  /\ pc = "ctor_wait"
  /\ pc' = IF bootError = "none" THEN "running" ELSE "unwind_context"
  /\ UNCHANGED <<cfgVars, sideVars, resetVars, ctxVars, task, bootVars, cpc,
                 clearVars, bg, failOrder, log>>

ConstructorReturns ==
  /\ pc = "ctor_wait"
  /\ bpc \in {"fulfilled", "exited"}
  /\ pc' = IF bootError = "none" THEN "running" ELSE "unwind_context"
  /\ UNCHANGED <<cfgVars, sideVars, resetVars, ctxVars, task, bootVars, cpc, clearVars,
                 bg, failOrder, log>>

\* Member destruction of a Manager whose constructor threw:
\* component_context_ goes first, task_processors_storage_ after it.
UnwindContext ==
  /\ pc = "unwind_context"
  /\ ctx' = IF ctx = "live" THEN "released" ELSE ctx
  /\ pc' = "unwind_storage"
  /\ UNCHANGED <<cfgVars, sideVars, resetVars, cancelled, compState, edges, task,
                 bootVars, cpc, clearVars, bg, failOrder, log>>

\* ------------------------------------------- TaskProcessorsStorage
EnterReset ==
  /\ rpc' = "shutdown"
  /\ resetCalls' = resetCalls + 1

\* ~TaskProcessorsStorage() { if (task_processor_pools_) Reset(); }
StorageDestructorSkipsReset ==
  /\ pc \in {"unwind_storage", "dtor_storage"}
  /\ pc' = IF pc = "unwind_storage" THEN "failed" ELSE "destroyed"
  /\ UNCHANGED <<cfgVars, sideVars, resetVars, ctxVars, task, bootVars, cpc, clearVars,
                 bg, failOrder, log>>

StorageDestructor ==
  /\ pc \in {"unwind_storage", "dtor_storage"}
  /\ IF pools
       THEN /\ EnterReset
            /\ pc' = IF pc = "unwind_storage" THEN "unwind_reset"
                     ELSE "dtor_storage_reset"
       ELSE /\ pc' = IF pc = "unwind_storage" THEN "failed" ELSE "destroyed"
            /\ UNCHANGED <<rpc, resetCalls>>
  /\ UNCHANGED <<cfgVars, sideVars, tps, pools, ctxVars, task, bootVars, cpc, clearVars,
                 bg, failOrder, log>>

\* Reset: task_processor->InitiateShutdown() for the next processor of the map.
InitiateShutdown(t) ==
  /\ rpc = "shutdown"
  /\ tps[t] = "running"
  /\ tps' = [tps EXCEPT ![t] = "shutdown"]
  /\ rpc' = IF \A u \in TaskProcessors \ {t} : tps[u] # "running"
              THEN "wait" ELSE "shutdown"
  /\ log' = Append(log, Event("InitiateShutdown", t))
  /\ UNCHANGED <<cfgVars, sideVars, pc, resetCalls, pools, ctxVars, task, bootVars,
                 cpc, clearVars, bg, failOrder>>

\* while (GetCoroPool().GetStats().active_coroutines) sleep_for(10ms);
\* the loop is left by the poll that reads 0.
PollIgnoresCoroutines == TRUE

\* (a poll of the number of coroutines ever started, which is never 0 again)
PollReadsTotalCreated ==
  (IF bpc = "none" THEN 0 ELSE 1) + (IF cpc = "none" THEN 0 ELSE 1)
  + Cardinality({i \in 1..N : task[i].st # "none"})
  + Cardinality({k \in 1..MaxDetached : bg[k] # "none"}) = 0

PollReadsIdle == ActiveCoroutines = 0

WaitForIdle ==
  /\ rpc = "wait"
  /\ PollReadsIdle
  /\ rpc' = "clear_map"
  /\ log' = Append(log, Event("Idle", ""))
  /\ UNCHANGED <<cfgVars, sideVars, pc, tps, resetCalls, pools, ctxVars, task, bootVars,
                 cpc, clearVars, bg, failOrder>>

\* task_processors_map_.clear(): every task processor is destroyed.
KeepTaskProcessors ==
  /\ rpc = "clear_map"
  /\ rpc' = "pools"
  /\ log' = Append(log, Event("ProcessorsDestroyed", ""))
  /\ UNCHANGED <<cfgVars, sideVars, pc, tps, resetCalls, pools, ctxVars, task, bootVars,
                 cpc, clearVars, bg, failOrder>>

ClearTaskProcessorsMap ==
  /\ rpc = "clear_map"
  /\ tps' = [t \in TaskProcessors |->
               IF tps[t] = "none" THEN "none" ELSE "destroyed"]
  /\ rpc' = "pools"
  /\ log' = Append(log, Event("ProcessorsDestroyed", ""))
  /\ UNCHANGED <<cfgVars, sideVars, pc, resetCalls, pools, ctxVars, task, bootVars,
                 cpc, clearVars, bg, failOrder>>

\* UASSERT(task_processor_pools_.use_count() == 1);
\* task_processor_pools_.reset();
KeepPools ==
  /\ rpc = "pools"
  /\ rpc' = "done"
  /\ log' = Append(log, Event("PoolsReleased", ""))
  /\ UNCHANGED <<cfgVars, sideVars, pc, tps, pools, resetCalls, ctxVars, task,
                 bootVars, cpc, clearVars, bg, failOrder>>

ReleasePools ==
  /\ rpc = "pools"
  /\ pools' = FALSE
  /\ rpc' = "done"
  /\ log' = Append(log, Event("PoolsReleased", ""))
  /\ UNCHANGED <<cfgVars, sideVars, pc, tps, resetCalls, ctxVars, task, bootVars,
                 cpc, clearVars, bg, failOrder>>

\* Reset returns to its caller: ~Manager or ~TaskProcessorsStorage.
ResetReturns ==
  /\ rpc = "done"
  /\ rpc' = "idle"
  /\ pc' = IF pc = "unwind_reset" THEN "failed"
           ELSE IF pc = "dtor_reset" THEN "dtor_storage"
           ELSE "destroyed"
  /\ UNCHANGED <<cfgVars, sideVars, tps, resetCalls, pools, ctxVars, task, bootVars,
                 cpc, clearVars, bg, failOrder, log>>

\* ------------------------------------------------------ Manager::~Manager
\* RunInCoro(*default_task_processor_, [this]() { ClearComponents(); })
DestructorStarts ==
  /\ pc = "running"
  /\ pc' = "dtor_clear"
  /\ cpc' = "clearing"
  /\ EnterClearComponents
  /\ UNCHANGED <<cfgVars, sideVars, resetVars, ctxVars, task, bootVars, clearCalls,
                 clearFailed, components_cleared_, bg, failOrder, log>>

ClearCoroutineExits ==
  /\ cpc = "fulfilled"
  /\ cpc' = "exited"
  /\ UNCHANGED <<cfgVars, sideVars, pc, resetVars, ctxVars, task, bootVars, clearVars,
                 bg, failOrder, log>>

\* future.get() has returned: component_context_.reset();
ReleaseContextEarly ==
  /\ pc = "dtor_clear"
  /\ ctx' = "released"
  /\ pc' = "dtor_reset_call"
  /\ log' = Append(log, Event("ContextReleased", ""))
  /\ UNCHANGED <<cfgVars, sideVars, resetVars, cancelled, compState, edges, task,
                 bootVars, cpc, clearVars, bg, failOrder>>

ReleaseContext ==
  /\ pc = "dtor_clear"
  /\ cpc \in {"fulfilled", "exited"}
  /\ ctx' = "released"
  /\ pc' = "dtor_reset_call"
  /\ log' = Append(log, Event("ContextReleased", ""))
  /\ UNCHANGED <<cfgVars, sideVars, resetVars, cancelled, compState, edges, task,
                 bootVars, cpc, clearVars, bg, failOrder>>

\* task_processors_storage_.Reset();
DestructorResets ==
  /\ pc = "dtor_reset_call"
  /\ EnterReset
  /\ pc' = "dtor_reset"
  /\ UNCHANGED <<cfgVars, sideVars, tps, pools, ctxVars, task, bootVars, cpc, clearVars,
                 bg, failOrder, log>>

\* ---------------------------------------------------- Manager::OnLogRotate
\* A thread of the embedding service calls OnLogRotate of a Manager that is
\* being constructed, is running or is in ClearComponents of its destructor.
\* std::shared_lock lock(context_mutex_): ClearComponents holds the mutex
\* exclusively for one step only, so the lock is free at every state.
LogRotateLock ==
  /\ rot = "idle"
  /\ pc \in {"ctor_wait", "running", "dtor_clear"}
  /\ rot' = "locked"
  /\ UNCHANGED <<cfgVars, worker_threads, component_config_map,
                 logging_component_, destroyed, pc, resetVars, ctxVars, task,
                 bootVars, cpc, clearVars, bg, failOrder, log>>

\* What the read of logging_component_ can yield: the stored pointer, and,
\* while a construction task is at its unsynchronised assignment, also the
\* value being written.
LoggingComponentRead ==
  {logging_component_}
    \cup {component_list[i] : i \in {j \in 1..N : task[j].st = "assign"}}

\* if (components_cleared_) return;
\* if (logging_component_) logging_component_->OnLogRotate();
LogRotateCheck ==
  /\ rot = "locked"
  /\ IF components_cleared_
       THEN rot' = "idle"
       ELSE \E read \in LoggingComponentRead :
              rot' = IF read = "nullptr" THEN "idle" ELSE "hook"
  /\ UNCHANGED <<cfgVars, worker_threads, component_config_map,
                 logging_component_, destroyed, pc, resetVars, ctxVars, task,
                 bootVars, cpc, clearVars, bg, failOrder, log>>

\* The logging component's OnLogRotate returns and the lock is released.
LogRotateReturns ==
  /\ rot = "hook"
  /\ rot' = "idle"
  /\ UNCHANGED <<cfgVars, worker_threads, component_config_map,
                 logging_component_, destroyed, pc, resetVars, ctxVars, task,
                 bootVars, cpc, clearVars, bg, failOrder, log>>

\* ----------------------------------- detached tasks of the running service
\* A task is admitted only by a task processor that is not shutting down.
StartDetached(k) ==
  /\ pc \in {"running", "dtor_clear", "dtor_reset_call", "dtor_reset"}
  /\ bg[k] = "none"
  /\ \E t \in TaskProcessors : tps[t] = "running"
  /\ bg' = [bg EXCEPT ![k] = "running"]
  /\ UNCHANGED <<cfgVars, sideVars, pc, resetVars, ctxVars, task, bootVars, cpc,
                 clearVars, failOrder, log>>

\* The task suspends on something outside the Manager (I/O, a timer, a mutex).
DetachedSuspends(k) ==
  /\ bg[k] = "running"
  /\ bg' = [bg EXCEPT ![k] = "suspended"]
  /\ UNCHANGED <<cfgVars, sideVars, pc, resetVars, ctxVars, task, bootVars, cpc,
                 clearVars, failOrder, log>>

\* What it waits for happens.
DetachedResumes(k) ==
  /\ bg[k] = "suspended"
  /\ bg' = [bg EXCEPT ![k] = "running"]
  /\ UNCHANGED <<cfgVars, sideVars, pc, resetVars, ctxVars, task, bootVars, cpc,
                 clearVars, failOrder, log>>

DetachedFinishes(k) ==
  /\ bg[k] = "running"
  /\ bg' = [bg EXCEPT ![k] = "done"]
  /\ UNCHANGED <<cfgVars, sideVars, pc, resetVars, ctxVars, task, bootVars, cpc,
                 clearVars, failOrder, log>>

\* ---------------------------------------------------------- specification
MainThread ==
  \/ ConstructTaskProcessors
  \/ FindDefaultTaskProcessor
  \/ ConstructorReturns
  \/ UnwindContext
  \/ StorageDestructor
  \/ \E t \in TaskProcessors : InitiateShutdown(t)
  \/ WaitForIdle
  \/ ClearTaskProcessorsMap
  \/ ReleasePools
  \/ ResetReturns
  \/ ReleaseContext
  \/ DestructorResets

BootCoroutine ==
  \/ CreateComponentContext
  \/ CheckComponentConfigs
  \/ SpawnTask
  \/ GetTask
  \/ CatchCancelsLoad
  \/ CatchWaitsAndClears
  \/ EscapeAddComponents
  \/ AfterGetLoop
  \/ OnAllComponentsLoaded
  \/ BootCoroutineExits

ClearComponents ==
  \/ ClearSetFlag
  \/ ContextClearMark
  \/ \E n \in Names : ContextDestroy(n)
  \/ ClearReturn
  \/ ClearCoroutineExits

ConstructionTask(i) ==
  \/ AddComponentImpl(i)
  \/ \E b \in Names : FindComponent(i, b)
  \/ WakeWaiter(i)
  \/ \E kind \in {"std", "nonstd"} : FactoryThrows(i, kind)
  \/ FactoryReturns(i)
  \/ AssignLoggingComponent(i)
  \/ TaskCatch(i)
  \/ TaskRethrow(i)

\* The thread inside OnLogRotate, from the lock on.
OnLogRotate ==
  \/ LogRotateCheck
  \/ LogRotateReturns

Environment ==
  \/ DestructorStarts
  \/ LogRotateLock
  \/ ExternalCancelComponentsLoad
  \/ \E k \in 1..MaxDetached : StartDetached(k)
  \/ \E k \in 1..MaxDetached : DetachedSuspends(k)
  \/ \E k \in 1..MaxDetached : DetachedResumes(k)

Next ==
  \/ MainThread
  \/ BootCoroutine
  \/ ClearComponents
  \/ \E i \in 1..N : ConstructionTask(i)
  \/ \E k \in 1..MaxDetached : DetachedFinishes(k)
  \/ OnLogRotate
  \/ Environment

Spec == Init /\ [][Next]_vars

\* The whole life of a Manager for every kind of config entry.
LoadSpec == LoadInit /\ [][Next]_vars

\* The head of the constructor for every task processor config and every
\* CPU_LIMIT.
CpuNext ==
  \/ ConstructTaskProcessors
  \/ FindDefaultTaskProcessor

CpuSpec == CpuInit /\ [][CpuNext]_vars

\* The thread that owns the Manager and the coroutines of the boot, of the
\* construction tasks and of ClearComponents take a step when they can: the
\* task processors run every ready coroutine.  A thread inside OnLogRotate
\* goes on to its return, and the unique_lock of ClearComponents, which a
\* rotation disables for as long as it holds the mutex, is granted when the
\* mutex is free again and again.  What the environment does (destroying the
\* Manager, calling OnLogRotate, waking a detached task) and whether a
\* detached task ever finishes is not under the Manager's control.
Fairness ==
  /\ WF_vars(MainThread)
  /\ WF_vars(BootCoroutine)
  /\ WF_vars(ClearComponents)
  /\ SF_vars(ClearSetFlag)
  /\ WF_vars(OnLogRotate)
  /\ \A i \in 1..MaxComponents : WF_vars(i <= N /\ ConstructionTask(i))

FairSpec == Spec /\ Fairness

\* ================================================================= claims
Pos(e) ==
  IF \E i \in 1..Len(log) : log[i] = e
    THEN CHOOSE i \in 1..Len(log) : log[i] = e /\ \A j \in 1..(i - 1) : log[j] # e
    ELSE 0
Happened(e) == Pos(e) > 0
Before(e, f) == Happened(e) /\ Pos(e) < Pos(f)
BootSucceeded == bootError = "none" /\ pc \notin {"ctor_processors", "ctor_default", "ctor_wait"}
DestructorStarted == cpc # "none"

\* C1: in the shutdown of a successfully booted Manager, ClearComponents has
\* finished before the context is released, the context is released before
\* any InitiateShutdown, every task processor got InitiateShutdown before the
\* idle pool is observed, the idle pool is observed before the processors
\* are destroyed, the processors are destroyed before the pools are released,
\* and a finished shutdown has done every step.
C1_ShutdownOrder ==
  DestructorStarted =>
    /\ Happened(Event("ContextReleased", "")) =>
         Before(Event("ClearComponents", ""), Event("ContextReleased", ""))
    /\ \A t \in TaskProcessors :
         /\ Happened(Event("InitiateShutdown", t)) =>
              Before(Event("ContextReleased", ""), Event("InitiateShutdown", t))
         /\ Happened(Event("Idle", "")) =>
              Before(Event("InitiateShutdown", t), Event("Idle", ""))
         /\ tps[t] = "destroyed" =>
              Before(Event("InitiateShutdown", t), Event("ProcessorsDestroyed", ""))
    /\ Happened(Event("ProcessorsDestroyed", "")) =>
         Before(Event("Idle", ""), Event("ProcessorsDestroyed", ""))
    /\ Happened(Event("PoolsReleased", "")) =>
         Before(Event("ProcessorsDestroyed", ""), Event("PoolsReleased", ""))
    /\ ~pools => Happened(Event("PoolsReleased", ""))
    /\ ctx = "released" => Happened(Event("ContextReleased", ""))
    /\ pc = "destroyed" =>
         /\ ~pools
         /\ ctx = "released"
         /\ \A t \in TaskProcessors : tps[t] = "destroyed"
         /\ Len(log) = 5 + Cardinality(TaskProcessors)

C1_Witness == pc = "destroyed" /\ BootSucceeded

FailureReturned == pc = "failed"
Failed(i) == task[i].st = "done" /\ task[i].exc \in {"std", "nonstd"}

\* C2: when a failed boot returns to the caller, every component is kStopped
\* or kNotRegistered, and if a component context was created its
\* ClearComponents has run.
C2_FailedBootIsCleared ==
  FailureReturned =>
    /\ \A n \in Names : compState[n] \in {"kStopped", "kNotRegistered"}
    /\ ctx # "none" => clearCalls >= 1

\* C3 as stated: when the constructor returns successfully, every name of the
\* component list is kActive, also one whose config has load-enabled=false.
C3_EveryExpectedActive ==
  (pc = "running") => \A n \in Expected : compState[n] = "kActive"

\* C3 as amended: when the constructor returns successfully, every name of
\* the component list whose load is enabled is kActive, and one whose
\* config has load-enabled=false was never constructed and is not kActive.
C3_EnabledActive ==
  (pc = "running") =>
    \A n \in Expected :
      IF components[n] = "disabled"
        THEN compState[n] = "kNotRegistered"
        ELSE compState[n] = "kActive"

C3_Witness ==
  /\ pc = "running"
  /\ \E n, m \in Expected : components[n] = "disabled" /\ compState[m] = "kActive"

\* C4: when a failed boot has returned, every task processor got
\* InitiateShutdown and was destroyed after it, no coroutine is active, the
\* pools are released, by one Reset, and the destructor of Manager never ran.
C4_FailedBootStopsEverything ==
  FailureReturned =>
    /\ \A t \in TaskProcessors :
         /\ tps[t] = "destroyed"
         /\ Before(Event("InitiateShutdown", t), Event("ProcessorsDestroyed", ""))
    /\ ActiveCoroutines = 0
    /\ ~pools
    /\ Happened(Event("PoolsReleased", ""))
    /\ resetCalls = 1
    /\ ~DestructorStarted

C4_Witness ==
  /\ FailureReturned
  /\ bootError = "construction"
  /\ \E i \in 1..N : task[i].exc = "cancelled"

C6_ShutdownAlwaysCompletes == DestructorStarted ~> (pc = "destroyed")

\* C6 as amended: once the destructor has started, the pools are eventually
\* released provided every detached task eventually finishes; the poll of
\* active_coroutines has no timeout and waits for as long as one is active.
C6_ShutdownCompletesIfTasksFinish ==
  (<>[](\A k \in 1..MaxDetached : bg[k] \notin {"running", "suspended"}))
    => (DestructorStarted ~> (pc = "destroyed" /\ ~pools))

C6_Witness ==
  /\ pc = "destroyed"
  /\ ~pools
  /\ \E k \in 1..MaxDetached : bg[k] = "done"

\* C7: no task processor is destroyed while a coroutine is active: from the
\* poll that leaves the wait loop on, through the clearing of the map and the
\* release of the pools and after it, active_coroutines is 0.
C7_IdleWhenDestroyed ==
  (rpc \in {"clear_map", "pools", "done"} \/ \E t \in TaskProcessors : tps[t] = "destroyed")
    => ActiveCoroutines = 0

C7_Witness ==
  /\ rpc = "pools"
  /\ \A t \in TaskProcessors : tps[t] = "destroyed"
  /\ \E k \in 1..MaxDetached : bg[k] = "done"

\* C8: when the storage is about to drop its reference to the pools, in a
\* shutdown and in a failed boot, no task processor is left in the map and
\* the storage's reference is the only one (use_count() == 1).
C8_LastReference ==
  (rpc = "pools") =>
    /\ pools
    /\ \A t \in TaskProcessors : tps[t] \in {"none", "destroyed"}
    /\ PoolsUseCount = 1

C8_Witness == rpc = "pools" /\ pc = "unwind_reset" /\ PoolsUseCount = 1

\* C9 as stated: the construction error the boot reports is that of the task
\* whose non-cancellation failure occurred first.
C9_FirstInTime ==
  (bootError = "construction") => bootErrorOf = failOrder[1]

\* C9 as amended: the construction error the boot reports is that of the
\* first task in the order of the component list that ended with a
\* non-cancellation error: every task before it has ended without an error
\* or with LoadCancelled.
C9_FirstInListOrder ==
  (bootError = "construction") =>
    /\ bootErrorOf \in 1..N
    /\ Failed(bootErrorOf)
    /\ \A j \in 1..(bootErrorOf - 1) :
         task[j].st = "done" /\ task[j].exc \in {"none", "cancelled"}

C9_Witness ==
  /\ FailureReturned
  /\ bootError = "construction"
  /\ Len(failOrder) = 2
  /\ failOrder[1] # bootErrorOf

\* C10: a construction task whose failure its joiner can see has called
\* CancelComponentsLoad before; and once a construction task has failed,
\* every construction task terminates and the boot returns failure.
C10_FailureCancelsAndBootReturns ==
  /\ [](\A i \in 1..N :
          (task[i].st \in {"rethrow", "done"} /\ task[i].exc # "none") => cancelled)
  /\ ((\E i \in 1..N : task[i].st = "throwing")
        ~> (FailureReturned /\ AllTasksDone /\ bootError # "none"))

C10_Witness ==
  /\ FailureReturned
  /\ \E i, j \in 1..N :
       /\ task[i].exc = "cancelled" /\ task[i].waitOn # ""
       /\ Failed(j)

ConstructorLeft == pc \notin {"ctor_processors", "ctor_default", "ctor_wait"}
Unwinding == pc \in {"unwind_context", "unwind_storage", "unwind_reset", "failed"}
HookRaised == bootError \in {"hook", "hook_nonstd"}
BootEnded == bpc \in {"fulfilled", "exited"}

\* C11: OnAllComponentsLoaded is invoked at most once in a boot and only
\* when every construction task has ended without an exception; and when it
\* has raised, the boot fails, and the error is reported only after
\* ClearComponents has run and has stopped every registered component.
C11_HookOnceThenTeardown ==
  /\ hookCalls <= 1
  /\ hookCalls = 1 =>
       \A i \in 1..N : task[i].st = "done" /\ task[i].exc = "none"
  /\ HookRaised =>
       /\ hookCalls = 1
       /\ ConstructorLeft => Unwinding
       /\ BootEnded =>
            /\ clearCalls = 1
            /\ Happened(Event("ClearComponents", ""))
            /\ \A n \in Names : compState[n] \in {"kStopped", "kNotRegistered"}

\* C12: with a name twice in the component list the boot fails with that
\* error and before anything is scheduled: no context is created, no
\* construction task is spawned, no component leaves kNotRegistered, the
\* hook and ClearComponents are never called.
C12_DuplicateFailsBeforeAnyTask ==
  HasDuplicates(component_list) =>
    /\ ctx = "none"
    /\ \A i \in 1..N : task[i] = NoTask
    /\ \A n \in Names : compState[n] = "kNotRegistered"
    /\ hookCalls = 0 /\ clearCalls = 0
    /\ BootEnded => bootError = "duplicate"
    /\ ConstructorLeft => Unwinding

C12_Witness ==
  /\ FailureReturned
  /\ bootError = "duplicate"
  /\ default_task_processor \in TaskProcessors

UnregisteredConfig ==
  {n \in Names : components[n] # "absent" /\ n \notin Expected}

\* C13: with a config entry whose name is not in the component list the boot
\* fails, wherever the entry stands among the others: no construction task
\* is spawned, no factory is started, no component leaves kNotRegistered,
\* and the error the boot ends with is that one (or the duplicate name found
\* before it).
C13_UnregisteredConfigFailsBeforeAnyTask ==
  UnregisteredConfig # {} =>
    /\ \A i \in 1..N : task[i] = NoTask
    /\ \A n \in Names : compState[n] = "kNotRegistered"
    /\ bpc \notin {"spawn", "get", "catch", "catch_wait", "escape", "all_created"}
    /\ hookCalls = 0
    /\ BootEnded => bootError \in {"unregistered_config", "duplicate"}
    /\ ConstructorLeft => Unwinding

C13_Witness ==
  /\ FailureReturned
  /\ bootError = "unregistered_config"
  /\ component_config_map # {}

\* C14: when no task processor has the name of default_task_processor, the
\* constructor fails with that error and CreateComponentContext is never
\* scheduled: no coroutine of the boot, no context, no construction task.
C14_MissingDefaultFailsBeforeContext ==
  default_task_processor \notin TaskProcessors =>
    /\ bpc = "none"
    /\ ctx = "none"
    /\ \A i \in 1..N : task[i] = NoTask
    /\ pc \notin {"ctor_processors", "ctor_default"} =>
         bootError = "missing_default" /\ Unwinding

C14_Witness ==
  /\ FailureReturned
  /\ bootError = "missing_default"
  /\ \A t \in TaskProcessors : tps[t] = "destroyed"

DestructorPastClear ==
  pc \in {"dtor_reset_call", "dtor_reset", "dtor_storage", "dtor_storage_reset",
          "destroyed"}

\* C15: the constructor is left only when the coroutine running
\* CreateComponentContext has finished (unless it was never scheduled); it is
\* left with a constructed Manager only if CreateComponentContext raised
\* nothing, and with the error otherwise; and the destructor goes past
\* RunInCoro(ClearComponents), and releases the context, only when
\* ClearComponents has finished.
C15_CallerBlocksOnCoroutine ==
  /\ (ConstructorLeft /\ bootError # "missing_default") => BootEnded
  /\ (ConstructorLeft /\ ~Unwinding) => bootError = "none" /\ hookCalls = 1
  /\ (ConstructorLeft /\ bootError # "none") => Unwinding
  /\ DestructorPastClear =>
       /\ cpc \in {"fulfilled", "exited"}
       /\ clearPhase = "idle"
       /\ clearCalls = 1
  /\ (DestructorStarted /\ ctx = "released") => DestructorPastClear

C15_Witness ==
  /\ pc = "destroyed"
  /\ bpc = "exited"
  /\ cpc = "exited"

\* C16: while the logging component's OnLogRotate is in progress the
\* components are not marked cleared, ClearComponents has not begun to stop
\* or destroy components and the logging component is active; and
\* components_cleared_, once true, stays true.
C16_RotationSerializedWithClear ==
  /\ [](rot = "hook" =>
          /\ ~components_cleared_
          /\ clearPhase \in {"idle", "flag"}
          /\ compState[LoggingName] = "kActive")
  /\ [][components_cleared_ => components_cleared_']_vars

C16_Witness ==
  /\ rot = "hook"
  /\ clearPhase = "flag"
  /\ cpc = "clearing"

\* C17: while a construction task is at the assignment of logging_component_
\* nobody holds context_mutex_ shared (the writer holds it exclusively), so
\* no thread inside OnLogRotate is at its read of the pointer.
C17_AssignmentUnderUniqueLock ==
  \A i \in 1..N : task[i].st = "assign" => SharedHolders = 0

\* The decimal numeral of n.
RECURSIVE Numeral(_)
Numeral(n) ==
  IF n < 0 THEN <<"-">> \o Numeral(0 - n)
  ELSE IF n < 10 THEN <<Digits[n + 1]>>
  ELSE Append(Numeral(n \div 10), Digits[(n % 10) + 1])

CpuNumbers == (0 - 340)..340
NumeralOf == [n \in CpuNumbers |-> Numeral(n)]
GuessAsked ==
  /\ pc # "ctor_processors"
  /\ default_task_processor \in TaskProcessors
  /\ task_processors[default_task_processor].should_guess_cpu_limit

\* C18: for the default task processor asking for the guess, CPU_LIMIT
\* "<n>c" gives worker_threads 3 for n of 1 and 2, n for n from 3 to 31, and
\* the configured value for n <= 0 and n >= 32; a value without the suffix c,
\* one that starts with no number, and an unset variable give the configured
\* value; a value that replaces the configured one is within 3..32.
C18_CpuLimitMapping ==
  GuessAsked =>
    LET applied == worker_threads[default_task_processor]
        configured == task_processors[default_task_processor].worker_threads IN
      /\ \A n \in CpuNumbers :
           /\ cpu_limit_env = EnvOf(NumeralOf[n] \o <<"c">>) =>
                applied = IF n >= 1 /\ n <= 2 THEN 3
                          ELSE IF n >= 3 /\ n < 32 THEN n
                          ELSE configured
           /\ cpu_limit_env = EnvOf(NumeralOf[n]) => applied = configured
      /\ ~cpu_limit_env.set => applied = configured
      /\ (cpu_limit_env.set /\ cpu_limit_env.value # <<>>
            /\ cpu_limit_env.value[1] \in {"a", "c"}) => applied = configured
      /\ cpu_limit_env = EnvOf(<<>>) => applied = configured
      /\ applied # configured => applied \in 3..32

C18_Witness ==
  /\ GuessAsked
  /\ cpu_limit_env = EnvOf(<<"3", "1", "c">>)
  /\ worker_threads[default_task_processor] = 31

\* C19: every task processor that is not the default one, and the default one
\* when it does not ask for the guess, is constructed with its configured
\* worker_threads whatever CPU_LIMIT is, also when it asks for the guess
\* itself; and the stored config never changes.
C19_OnlyDefaultProcessorGuessed ==
  /\ [](pc # "ctor_processors" =>
          \A t \in TaskProcessors :
            (t # default_task_processor
               \/ ~task_processors[t].should_guess_cpu_limit)
              => worker_threads[t] = task_processors[t].worker_threads)
  /\ [][task_processors' = task_processors]_vars

C19_Witness ==
  /\ GuessAsked
  /\ worker_threads[default_task_processor] = 3
  /\ \E t \in TaskProcessors \ {default_task_processor} :
       /\ task_processors[t].should_guess_cpu_limit
       /\ worker_threads[t] = task_processors[t].worker_threads

DestroyedAt(n) == CHOOSE k \in 1..Len(destroyed) : destroyed[k] = n

Occurrences(seq, x) == Cardinality({k \in 1..Len(seq) : seq[k] = x})
Ended == pc \in {"failed", "destroyed"}

\* C21: the context's ClearComponents is never entered twice and never
\* without a context; and when the life of a Manager that created a context
\* has ended, in a failed boot or in the destructor, it has been entered once
\* and every component that was registered has been destroyed once.
C21_ClearedExactlyOnce ==
  /\ clearCalls <= 1
  /\ ctx = "none" => clearCalls = 0
  /\ (Ended /\ ctx # "none") =>
       /\ clearCalls = 1
       /\ \A n \in Names :
            compState[n] # "kNotRegistered" => Occurrences(destroyed, n) = 1

\* What the constructor of Manager throws.
ReportedError ==
  IF bootError = "none" THEN "none"
  ELSE IF bootError \in {"missing_default", "duplicate", "unregistered_config"}
    THEN "std::runtime_error"
  ELSE IF bootError = "cancelled_only" THEN "std::logic_error"
  ELSE IF bootError = "construction" THEN "exception of the construction task"
  ELSE "exception of OnAllComponentsLoaded"

OnlyCancelled ==
  /\ \E i \in 1..N : task[i].st = "done" /\ task[i].exc = "cancelled"
  /\ \A i \in 1..N : task[i].exc \in {"none", "cancelled"}

\* C22 as stated: a boot whose tasks ended with LoadCancelled and none with
\* another error fails with LoadStalled, after ClearComponents has run.
C22_CancelledOnlyIsLoadStalled ==
  (BootEnded /\ OnlyCancelled) =>
    /\ ReportedError = "LoadStalled"
    /\ clearCalls = 1

\* C22 as amended: a boot whose tasks ended with LoadCancelled and none with
\* another error fails with the std::logic_error of the is_load_cancelled
\* branch, after ClearComponents has run; the hook is never called.
C22_CancelledOnlyIsLogicError ==
  (BootEnded /\ OnlyCancelled) =>
    /\ bootError = "cancelled_only"
    /\ ReportedError = "std::logic_error"
    /\ clearCalls = 1
    /\ Happened(Event("ClearComponents", ""))
    /\ hookCalls = 0

C22_Witness ==
  /\ FailureReturned
  /\ OnlyCancelled
  /\ bootError = "cancelled_only"

\* C23: when a construction task has failed with an error that is not
\* LoadCancelled, the boot reports the error of such a task, whatever the
\* tasks before it ended with; and the branch for a load that was only
\* cancelled is taken only when every task ended without an error or with
\* LoadCancelled.
C23_CancellationNeverMasksFailure ==
  /\ (BootEnded /\ \E i \in 1..N : Failed(i)) =>
       /\ bootError = "construction"
       /\ bootErrorOf \in 1..N
       /\ Failed(bootErrorOf)
  /\ bootError = "cancelled_only" =>
       \A i \in 1..N : task[i].st = "done" /\ task[i].exc \in {"none", "cancelled"}

C23_Witness ==
  /\ FailureReturned
  /\ bootError = "construction"
  /\ \E j \in 1..N : j < bootErrorOf /\ task[j].exc = "cancelled"

C25_MissingConfigFailsDisabledSkips ==
  \A i \in 1..N :
    LET n == component_list[i] IN
      task[i].st \notin {"none", "spawned"} =>
        /\ components[n] = "absent" =>
             /\ task[i].st \in {"throwing", "rethrow", "done"}
             /\ task[i].exc = "std"
             /\ compState[n] = "kNotRegistered"
             /\ task[i].st \in {"rethrow", "done"} => cancelled
             /\ BootEnded => bootError = "construction"
        /\ components[n] = "disabled" =>
             /\ task[i].st = "done" /\ task[i].exc = "none"
             /\ compState[n] = "kNotRegistered"
        /\ components[n] \in {"enabled", "unspecified"} =>
             compState[n] # "kNotRegistered"

C25_Witness ==
  /\ FailureReturned
  /\ \E i, j \in 1..N :
       /\ components[component_list[i]] = "absent"
       /\ components[component_list[j]] = "unspecified"
       /\ compState[component_list[j]] = "kStopped"

\* C26: Reset is entered at most once; a Manager whose life has ended, by
\* its destructor or by a failed boot, has had it once and holds no pools;
\* the storage's destructor never runs it after the destructor of Manager
\* has; the pools are released once, the processors destroyed once, and no
\* task processor gets InitiateShutdown twice or after it was destroyed.
C26_ResetAtMostOnce ==
  /\ resetCalls <= 1
  /\ Ended => resetCalls = 1 /\ ~pools
  /\ pc # "dtor_storage_reset"
  /\ Occurrences(log, Event("PoolsReleased", "")) <= 1
  /\ Occurrences(log, Event("ProcessorsDestroyed", "")) <= 1
  /\ \A t \in TaskProcessors :
       /\ Occurrences(log, Event("InitiateShutdown", t)) <= 1
       /\ Happened(Event("ProcessorsDestroyed", "")) =>
            \A k \in Pos(Event("ProcessorsDestroyed", ""))..Len(log) :
              log[k] # Event("InitiateShutdown", t)

C26_Witness ==
  /\ pc = "destroyed"
  /\ resetCalls = 1
  /\ Occurrences(log, Event("PoolsReleased", "")) = 1

====
